---- MODULE Spec2Model ----
(***************************************************************************)
(* Model of gazebo/Server.cc: the gzserver orchestration layer.            *)
(*                                                                         *)
(* Threads: the main thread (LoadFile/LoadString, Init, Run and, inside    *)
(* Run, ProcessControlMsgs and OpenWorld), the transport callback threads  *)
(* that call OnControl, a thread or signal that requests a stop, and the   *)
(* physics thread of every running world.                                  *)
(***************************************************************************)
EXTENDS Integers, Sequences, FiniteSets, TLC

(* ------------------------------ bounds -------------------------------- *)
\* control messages delivered over the life of the server
MaxMsgs == 2
\* LoadImpl calls (LoadFile/LoadString that reach it) made on the one Server
MaxLoads == 2
\* calls of Fini made on the one Server
MaxFinis == 2

\* transport callback threads
Producers == {"t1", "t2"}

(* --------------------------- world sources ---------------------------- *)
\* What a world source turns out to be when the server reads it:
\*   unreadable  fopen fails (LoadFile) / sdf::readFile fails
\*   malformed   sdf::readFile / sdf::readString fails
\*   noworld     parses, but the root has no <world> element
\*   loaderror   parses, but physics::load_world throws common::Exception
\*   good        parses and loads
Files == {"worlds/empty.world", "good.world", "missing.world",
          "model.sdf", "badphys.world"}

FileKind(f) ==
  CASE f = "worlds/empty.world" -> "good"
    [] f = "good.world"         -> "good"
    [] f = "missing.world"      -> "unreadable"
    [] f = "model.sdf"          -> "noworld"
    [] f = "badphys.world"      -> "loaderror"
    [] OTHER                    -> "unreadable"

\* in-memory descriptions handed to LoadString (log replay)
Strings == {"good", "malformed", "noworld", "loaderror"}

(* -------------------------- control messages -------------------------- *)
\* msgs::ServerControl: four optional fields; "none" is an absent field.
None == "none"

Msg(swn, sfn, nw, ofn) ==
  [save_world_name |-> swn, save_filename |-> sfn,
   new_world |-> nw, open_filename |-> ofn]

\* the messages the callback threads deliver in this model
SentMsgs ==
  { Msg("default", None, None, None),          \* save, no filename
    Msg("default", "out.world", None, None),   \* save
    Msg(None, None, "true", None),             \* new world
    Msg(None, None, None, "good.world"),       \* open: valid source
    Msg(None, None, None, "missing.world"),    \* open: unreadable source
    Msg(None, None, None, "model.sdf"),        \* open: no world definition
    Msg(None, None, None, "badphys.world") }   \* open: construction fails

\* the messages of the command specification: every way the three fields
\* the if / else-if chain of ProcessControlMsgs tests (save_world_name,
\* new_world and its value, open_filename) can be present together, a save
\* without filename, and an open of the default source
CmdMsgs ==
  { Msg(swn, IF swn = None THEN None ELSE "out.world", nw, ofn) :
      swn \in {None, "default"}, nw \in {None, "true", "false"},
      ofn \in {None, "good.world"} }
  \cup { Msg("default", None, None, None),
         Msg(None, None, None, "worlds/empty.world") }

has_save_world_name(m) == m.save_world_name # None
has_save_filename(m)   == m.save_filename # None
has_new_world(m)       == m.new_world # None
has_open_filename(m)   == m.open_filename # None

\* mutant of Dispatch: open_filename is tested before save_world_name
DispatchOpenFirst(m) ==
  IF has_open_filename(m) THEN "open"
  ELSE IF has_save_world_name(m) THEN "save"
  ELSE IF has_new_world(m) /\ m.new_world = "true" THEN "new"
  ELSE "none"

\* the if / else-if chain of ProcessControlMsgs
Dispatch(m) ==
  IF has_save_world_name(m) THEN "save"
  ELSE IF has_new_world(m) /\ m.new_world = "true" THEN "new"
  ELSE IF has_open_filename(m) THEN "open"
  ELSE "none"

\* mutant of OpenTarget: NewWorld is passed the message's open_filename
OpenTargetIgnoresNew(m) == m.open_filename

\* the source OpenWorld is called with
OpenTarget(m) ==
  IF Dispatch(m) = "new" THEN "worlds/empty.world" ELSE m.open_filename

(* ------------------------------- state -------------------------------- *)
VARIABLES
  pc,           \* position of the main thread
  stop,         \* Server::stop (static)
  stopReq,      \* a stop request (Stop() or SIGINT) has been made
  startFailed,  \* ParseArgs returned false or was left by an exception
  masters,      \* every gazebo::Master created: "running" | "stopped"
  master,       \* this->master: index into masters, 0 when unset
  subscribed,   \* serverSub: /gazebo/server/control is subscribed
  advertised,   \* worldModPub: /gazebo/world/modify is advertised
  transport,    \* gazebo::run() thread: "off" | "running" | "stopped"
  sensorMgr,    \* sensor subsystem: "off" | "loaded" | "inited" | "stopped"
  worlds,       \* physics g_worlds: sequence of world records
  nextWorld,    \* id of the next world instance
  sensors,      \* ids of the worlds whose sensors are attached
  buffers,      \* the transport holds published messages not yet sent
  pubs,         \* notifications published on /gazebo/world/modify
  controlMsgs,  \* this->controlMsgs
  lock,         \* holder of *receiveMutex, "none" when free
  ppc,          \* position of every callback thread inside OnControl
  sent,         \* messages appended so far (ids 1..sent)
  iter,         \* the list iterator of ProcessControlMsgs (1-based)
  executed,     \* ids of the commands whose execution has started
  saved,        \* files written by World::Save
  errors,       \* "No filename specified." diagnostics logged
  owFile,       \* OpenWorld: _filename
  owNew,        \* OpenWorld: id of the world it created, 0 before
  owResult,     \* outcome of the last OpenWorld: "none" | "true" | "false" | "threw"
  owOld,        \* worlds at the entry of the last OpenWorld
  owPubs,       \* Len(pubs) at the entry of the last OpenWorld
  batch,        \* controlMsgs at the start of the current drain
  drainExec,    \* ids executed by the current drain
  arrived,      \* a command was appended since the current drain began
  stopInLoop,   \* a stop request was made while Run was in its loop
  shutdown,     \* the subsystem stops issued by Run, in order
  stepping,     \* a world's physics thread is inside a step
  fpc,          \* position of the thread that calls Fini, "idle" outside
  finis         \* calls of Fini begun so far

vars == << pc, stop, stopReq, startFailed, masters, master, subscribed, advertised,
           transport, sensorMgr, worlds, nextWorld, sensors, buffers, pubs,
           controlMsgs, lock, ppc, sent, iter, executed, saved, errors,
           owFile, owNew, owResult, owOld, owPubs, batch, drainExec, arrived,
           stopInLoop, shutdown, stepping, fpc, finis >>

\* groups used by UNCHANGED
brokerVars  == << masters, master, subscribed, advertised, transport >>
worldVars   == << worlds, nextWorld, sensors, buffers, sensorMgr >>
queueVars   == << controlMsgs, lock, ppc, sent >>
drainVars   == << iter, executed, batch, drainExec, arrived >>
cmdVars     == << saved, errors >>
owVars      == << owFile, owNew, owResult, owOld, owPubs >>
finiVars    == << fpc, finis >>

(* ------------------------------ helpers ------------------------------- *)
NoMsg == Msg(None, None, None, None)

NewWorldRec(id) ==
  [id |-> id, name |-> "default", loaded |-> FALSE, inited |-> FALSE,
   running |-> FALSE]

WorldIds == { worlds[i].id : i \in 1..Len(worlds) }

\* the live worlds of a given name
WorldsNamed(n) == { i \in 1..Len(worlds) : worlds[i].name = n }

\* physics::get_world(name): the first world of that name, 0 (a null
\* WorldPtr) when there is none
get_world(name) ==
  IF WorldsNamed(name) = {} THEN 0
  ELSE worlds[CHOOSE i \in WorldsNamed(name) :
                \A j \in WorldsNamed(name) : i <= j].id

MapWorlds(F(_)) == [ i \in 1..Len(worlds) |-> F(worlds[i]) ]

\* positions of the main thread inside the while loop of Run
DrainPcs == {"pcm_test", "pcm_exec", "pcm_next", "pcm_clear"}
OwPcs    == {"ow_read", "ow_pub_remove", "ow_stop_worlds", "ow_remove_worlds",
             "ow_remove_sensors", "ow_clear_buffers", "ow_create_world",
             "ow_load_world", "ow_init_world", "ow_run_world",
             "ow_pub_create"}
LoopPcs  == {"loop_test", "pcm_begin", "sensors_tick", "sleep"}
              \cup DrainPcs \cup OwPcs

(* ------------------------------- Init --------------------------------- *)
\* Server::Server(); bool Server::stop = true
Init ==
  /\ pc = "created"
  /\ stop = TRUE
  /\ stopReq = FALSE
  /\ startFailed = FALSE
  /\ fpc = "idle"
  /\ finis = 0
  /\ masters = << >>
  /\ master = 0
  /\ subscribed = FALSE
  /\ advertised = FALSE
  /\ transport = "off"
  /\ sensorMgr = "off"
  /\ worlds = << >>
  /\ nextWorld = 1
  /\ sensors = {}
  /\ buffers = FALSE
  /\ pubs = << >>
  /\ controlMsgs = << >>
  /\ lock = "none"
  /\ ppc = [p \in Producers |-> "idle"]
  /\ sent = 0
  /\ iter = 0
  /\ executed = << >>
  /\ saved = << >>
  /\ errors = 0
  /\ owFile = None
  /\ owNew = 0
  /\ owResult = "none"
  /\ owOld = {}
  /\ owPubs = 0
  /\ batch = << >>
  /\ drainExec = << >>
  /\ arrived = FALSE
  /\ stopInLoop = FALSE
  /\ shutdown = << >>
  /\ stepping = FALSE

(* ---------------------------- World Loader ---------------------------- *)
\* mutant of StartMaster: RunThread is forgotten, the Broker is only created
StartMasterNoThread == Append(masters, "created")

\* this->master = new gazebo::Master(); Init(port); RunThread()
StartMaster == Append(masters, "running")

\* Server::LoadImpl up to the world: the Broker, the plugin, sensors and
\* physics libraries, and the world of a parsed description of the given
\* kind. nodePc is where the call goes on: the transport node of LoadImpl.
LoadImplTo(kind, nodePc) ==
  /\ masters' = StartMaster
  /\ master' = Len(masters) + 1
  /\ sensorMgr' = "loaded"
  /\ UNCHANGED << buffers, subscribed, advertised, transport >>
  /\ IF kind = "noworld"
       THEN \* worldElem is null: no world is created, LoadImpl goes on
            /\ UNCHANGED << worlds, nextWorld, sensors >>
            /\ pc' = nodePc
       ELSE IF kind = "loaderror"
       THEN \* load_world throws; gzthrow leaves LoadImpl and its callers
            /\ worlds' = Append(worlds, NewWorldRec(nextWorld))
            /\ nextWorld' = nextWorld + 1
            /\ UNCHANGED << sensors >>
            /\ pc' = "crashed"
       ELSE /\ worlds' = Append(worlds,
                           [NewWorldRec(nextWorld) EXCEPT !.loaded = TRUE])
            /\ nextWorld' = nextWorld + 1
            /\ sensors' = sensors \cup {nextWorld}
            /\ pc' = nodePc

\* Server::LoadImpl called from LoadFile or LoadString
LoadImpl(kind) == LoadImplTo(kind, "li_node")

\* the rest of Server::LoadImpl: the node, the control subscription, the
\* world-modify advertisement, gazebo::run(); return true
LoadImplNode ==
  /\ pc \in {"li_node", "pa_node"}
  /\ subscribed' = TRUE
  /\ advertised' = TRUE
  /\ transport' = "running"
  /\ pc' = IF pc = "li_node" THEN "loaded" ELSE "pa_loaded"
  /\ UNCHANGED << stop, stopReq, startFailed, finiVars, masters, master, worldVars,
                  pubs, queueVars, drainVars, cmdVars, owVars, stopInLoop,
                  shutdown >>
  /\ UNCHANGED stepping

\* a load that returns false before LoadImpl
LoadRejected ==
  UNCHANGED << pc, brokerVars, worldVars >>

\* Server::LoadFile
LoadFile(f) ==
  /\ pc \in {"created", "loaded"}
  /\ Len(masters) < MaxLoads
  /\ IF FileKind(f) \in {"unreadable", "malformed"}
       THEN LoadRejected
       ELSE LoadImpl(FileKind(f))
  /\ UNCHANGED << stop, stopReq, startFailed, finiVars, pubs, queueVars, drainVars, cmdVars, owVars,
                  stopInLoop, shutdown >>
  /\ UNCHANGED stepping

\* Server::LoadString
LoadString(s) ==
  /\ pc \in {"created", "loaded"}
  /\ Len(masters) < MaxLoads
  /\ IF s = "malformed"
       THEN LoadRejected
       ELSE LoadImpl(s)
  /\ UNCHANGED << stop, stopReq, startFailed, finiVars, pubs, queueVars, drainVars, cmdVars, owVars,
                  stopInLoop, shutdown >>
  /\ UNCHANGED stepping

(* ------------------------- Startup: ParseArgs -------------------------- *)
\* the command lines ParseArgs is given: whether the options parse, and the
\* help, play and world_file options ("none" when absent)
ArgLines ==
  [valid : BOOLEAN, help : BOOLEAN,
   play : {None} \cup Strings, world_file : {None} \cup Files]

\* the world description ParseArgs loads: the first world of the log file,
\* or the configuration file, "worlds/empty.world" unless world_file is given
ArgKind(a) ==
  IF a.play # None THEN a.play
  ELSE IF a.world_file # None THEN FileKind(a.world_file)
  ELSE FileKind("worlds/empty.world")

\* ParseArgs returns false: invalid arguments, help, or a load returning false
ArgRejected(a) ==
  \/ ~a.valid
  \/ a.help
  \/ ArgKind(a) \in {"unreadable", "malformed"}

\* mutant of ParseArgs: the result of the load is ignored, Init always runs
ParseArgsIgnoresLoadResult(a) ==
  /\ pc = "created"
  /\ masters = << >>
  /\ IF ArgRejected(a)
       THEN /\ pc' = IF ~a.valid \/ a.help THEN "parse_failed" ELSE "pa_loaded"
            /\ startFailed' = TRUE
            /\ UNCHANGED << brokerVars, worldVars >>
       ELSE /\ LoadImplTo(ArgKind(a), "pa_node")
            /\ startFailed' = (ArgKind(a) = "loaderror")
  /\ UNCHANGED << stop, stopReq, finiVars, pubs, queueVars, drainVars, cmdVars,
                  owVars,
                  stopInLoop, shutdown >>
  /\ UNCHANGED stepping

\* Server::ParseArgs up to the end of its load; the load continues with
\* LoadImplNode, and ProcessParams() and Init() follow at "pa_loaded"
ParseArgs(a) ==
  /\ pc = "created"
  /\ masters = << >>
  /\ IF ArgRejected(a)
       THEN /\ pc' = "parse_failed"
            /\ startFailed' = TRUE
            /\ UNCHANGED << brokerVars, worldVars >>
       ELSE /\ LoadImplTo(ArgKind(a), "pa_node")
            /\ startFailed' = (ArgKind(a) = "loaderror")
  /\ UNCHANGED << stop, stopReq, finiVars, pubs, queueVars, drainVars, cmdVars,
                  owVars,
                  stopInLoop, shutdown >>
  /\ UNCHANGED stepping

\* mutant of ServerInit: the stop flag is not cleared
ServerInitKeepsStop ==
  /\ pc \in {"loaded", "pa_loaded"}
  /\ sensorMgr' = "inited"
  /\ worlds' = MapWorlds(LAMBDA w : [w EXCEPT !.inited = TRUE])
  /\ pc' = "initialized"
  /\ UNCHANGED << stop, stopReq, startFailed, finiVars, brokerVars, nextWorld, sensors,
                  buffers, pubs, queueVars, drainVars, cmdVars, owVars,
                  stopInLoop, shutdown >>
  /\ UNCHANGED stepping

\* Server::Init, called by the owner of the Server or at the end of ParseArgs
ServerInit ==
  /\ pc \in {"loaded", "pa_loaded"}
  /\ sensorMgr' = "inited"
  /\ worlds' = MapWorlds(LAMBDA w : [w EXCEPT !.inited = TRUE])
  /\ stop' = FALSE
  /\ pc' = "initialized"
  /\ UNCHANGED << stopReq, startFailed, finiVars, brokerVars, nextWorld, sensors, buffers,
                  pubs, queueVars, drainVars, cmdVars, owVars, stopInLoop,
                  shutdown >>
  /\ UNCHANGED stepping

(* ---------------------------- stop requests --------------------------- *)
\* stop = true, written from a signal handler or from another thread
StopRequest ==
  /\ ~stopReq
  /\ pc # "crashed"
  /\ stop' = TRUE
  /\ stopReq' = TRUE
  /\ stopInLoop' = (pc \in LoopPcs)
  /\ UNCHANGED << pc, startFailed, finiVars, brokerVars, worldVars, pubs, queueVars,
                  drainVars, cmdVars, owVars, shutdown >>
  /\ UNCHANGED stepping

\* Server::SigInt
SigInt == StopRequest

\* Server::Stop
Stop == StopRequest

(* --------------------- Control Channel: OnControl --------------------- *)
\* scoped_lock lock(*this->receiveMutex)
OnControlLock(p) ==
  /\ subscribed
  /\ transport = "running"
  /\ pc # "crashed"
  /\ sent < MaxMsgs
  /\ ppc[p] = "idle"
  /\ lock = "none"
  /\ lock' = p
  /\ ppc' = [ppc EXCEPT ![p] = "locked"]
  /\ UNCHANGED << pc, stop, stopReq, startFailed, finiVars, brokerVars, worldVars, pubs,
                  controlMsgs, sent, drainVars, cmdVars, owVars, stopInLoop,
                  shutdown >>
  /\ UNCHANGED stepping

\* this->controlMsgs.push_back(*_msg); the scoped lock is released on return.
\* The message gets the next id: ids are in the order the appends complete.
OnControlPush(p, m) ==
  /\ ppc[p] = "locked"
  /\ controlMsgs' = Append(controlMsgs, [id |-> sent + 1, m |-> m])
  /\ sent' = sent + 1
  /\ arrived' = (arrived \/ pc \in DrainPcs \cup OwPcs \cup {"sensors_tick"})
  /\ lock' = "none"
  /\ ppc' = [ppc EXCEPT ![p] = "idle"]
  /\ UNCHANGED << pc, stop, stopReq, startFailed, finiVars, brokerVars, worldVars, pubs,
                  iter, executed, batch, drainExec, cmdVars, owVars,
                  stopInLoop, shutdown >>
  /\ UNCHANGED stepping

\* mutant of RunEnter: the worlds are run without the first sensor update
RunEnterSkipsSensors ==
  /\ pc \in {"created", "parse_failed", "loaded", "initialized"}
  /\ pc' = IF stop THEN "returned" ELSE "run_worlds"
  /\ UNCHANGED << stop, stopReq, startFailed, finiVars, brokerVars, worldVars, pubs,
                  queueVars, drainVars, cmdVars, owVars, stopInLoop,
                  shutdown >>
  /\ UNCHANGED stepping

(* ------------------------ Simulation Loop: Run ------------------------ *)
\* if (this->stop) return;
RunEnter ==
  /\ pc \in {"created", "parse_failed", "loaded", "initialized"}
  /\ pc' = IF stop THEN "returned" ELSE "run_once"
  /\ UNCHANGED << stop, stopReq, startFailed, finiVars, brokerVars, worldVars, pubs,
                  queueVars, drainVars, cmdVars, owVars, stopInLoop,
                  shutdown >>
  /\ UNCHANGED stepping

\* sensors::run_once(true) before the worlds run
RunSensorsOnce ==
  /\ pc = "run_once"
  /\ pc' = "run_worlds"
  /\ UNCHANGED << stop, stopReq, startFailed, finiVars, brokerVars, worldVars, pubs,
                  queueVars, drainVars, cmdVars, owVars, stopInLoop,
                  shutdown >>
  /\ UNCHANGED stepping

\* physics::run_worlds(): every world starts its thread
RunWorlds ==
  /\ pc = "run_worlds"
  /\ worlds' = MapWorlds(LAMBDA w : [w EXCEPT !.running = TRUE])
  /\ pc' = "loop_test"
  /\ UNCHANGED << stop, stopReq, startFailed, finiVars, brokerVars, nextWorld, sensors,
                  buffers, sensorMgr, pubs, queueVars, drainVars, cmdVars,
                  owVars, stopInLoop, shutdown >>
  /\ UNCHANGED stepping

\* mutant of LoopTest: the loop goes on while commands are queued
LoopTestDrainsFirst ==
  /\ pc = "loop_test"
  /\ pc' = IF stop /\ controlMsgs = << >> THEN "stop_worlds" ELSE "pcm_begin"
  /\ UNCHANGED << stop, stopReq, startFailed, finiVars, brokerVars, worldVars, pubs,
                  queueVars, drainVars, cmdVars, owVars, stopInLoop,
                  shutdown >>
  /\ UNCHANGED stepping

\* while (!this->stop)
LoopTest ==
  /\ pc = "loop_test"
  /\ pc' = IF stop THEN "stop_worlds" ELSE "pcm_begin"
  /\ UNCHANGED << stop, stopReq, startFailed, finiVars, brokerVars, worldVars, pubs,
                  queueVars, drainVars, cmdVars, owVars, stopInLoop,
                  shutdown >>
  /\ UNCHANGED stepping

\* sensors::run_once(true) inside the loop; ProcessControlMsgs has returned,
\* the record of its drain is dropped
SensorsTick ==
  /\ pc = "sensors_tick"
  /\ pc' = "sleep"
  /\ iter' = 0
  /\ batch' = << >>
  /\ drainExec' = << >>
  /\ arrived' = FALSE
  /\ UNCHANGED << stop, stopReq, startFailed, finiVars, brokerVars, worldVars, pubs,
                  queueVars, executed, cmdVars, owVars, stopInLoop,
                  shutdown >>
  /\ UNCHANGED stepping

\* common::Time::MSleep(1)
Sleep ==
  /\ pc = "sleep"
  /\ pc' = "loop_test"
  /\ UNCHANGED << stop, stopReq, startFailed, finiVars, brokerVars, worldVars, pubs,
                  queueVars, drainVars, cmdVars, owVars, stopInLoop,
                  shutdown >>
  /\ UNCHANGED stepping

\* mutant of ShutdownStep: the Broker is stopped before the transport
ShutdownStepBrokerEarly(at) ==
  CASE at = "stop_worlds"  -> "sensors_stop"
    [] at = "sensors_stop" -> "master_stop"
    [] at = "master_stop"  -> "gazebo_stop"
    [] at = "gazebo_stop"  -> "returned"

\* the statements of Run after the loop, in program order
ShutdownStep(at) ==
  CASE at = "stop_worlds"  -> "sensors_stop"
    [] at = "sensors_stop" -> "gazebo_stop"
    [] at = "gazebo_stop"  -> "master_stop"
    [] at = "master_stop"  -> "returned"

\* physics::stop_worlds()
RunStopWorlds ==
  /\ pc = "stop_worlds"
  /\ worlds' = MapWorlds(LAMBDA w : [w EXCEPT !.running = FALSE])
  /\ shutdown' = Append(shutdown, pc)
  /\ pc' = ShutdownStep(pc)
  /\ UNCHANGED << stop, stopReq, startFailed, finiVars, brokerVars, nextWorld, sensors,
                  buffers, sensorMgr, pubs, queueVars, drainVars, cmdVars,
                  owVars, stopInLoop >>
  /\ stepping' = FALSE

\* sensors::stop()
RunStopSensors ==
  /\ pc = "sensors_stop"
  /\ sensorMgr' = "stopped"
  /\ shutdown' = Append(shutdown, pc)
  /\ pc' = ShutdownStep(pc)
  /\ UNCHANGED << stop, stopReq, startFailed, finiVars, brokerVars, worlds, nextWorld,
                  sensors, buffers, pubs, queueVars, drainVars, cmdVars,
                  owVars, stopInLoop >>
  /\ UNCHANGED stepping

\* gazebo::stop()
RunStopGazebo ==
  /\ pc = "gazebo_stop"
  /\ transport' = "stopped"
  /\ shutdown' = Append(shutdown, pc)
  /\ pc' = ShutdownStep(pc)
  /\ UNCHANGED << stop, stopReq, startFailed, finiVars, masters, master, subscribed,
                  advertised, worldVars, pubs, queueVars, drainVars, cmdVars,
                  owVars, stopInLoop >>
  /\ UNCHANGED stepping

\* this->master->Stop(). On a handle that Fini has set to NULL or on a
\* Master that was deleted the call has undefined behaviour: the process is
\* ended by the fault, or the call goes through on the freed object.
RunStopMaster ==
  /\ pc = "master_stop"
  /\ shutdown' = Append(shutdown, pc)
  /\ IF master = 0 \/ masters[master] = "deleted"
       THEN /\ pc' \in {"crashed", ShutdownStep(pc)}
            /\ UNCHANGED masters
       ELSE /\ masters' = [masters EXCEPT ![master] =
                            IF @ = "running" THEN "stopped" ELSE @]
            /\ pc' = ShutdownStep(pc)
  /\ UNCHANGED << stop, stopReq, startFailed, finiVars, master, subscribed,
                  advertised, transport, worldVars, pubs, queueVars,
                  drainVars, cmdVars, owVars, stopInLoop >>
  /\ UNCHANGED stepping

(* -------------------- Command Queue: ProcessControlMsgs --------------- *)
\* ProcessControlMsgs never takes receiveMutex, so each of its accesses to
\* controlMsgs (begin, the end test, the dereference, ++iter, clear) is a
\* step of its own that the push_back of a callback thread may precede or
\* follow: a command appended during the iteration is either reached by the
\* iterator or destroyed by clear().
\* iter = this->controlMsgs.begin()
PcmBegin ==
  /\ pc = "pcm_begin"
  /\ iter' = 1
  /\ batch' = controlMsgs
  /\ drainExec' = << >>
  /\ arrived' = FALSE
  /\ pc' = "pcm_test"
  /\ UNCHANGED << stop, stopReq, startFailed, finiVars, brokerVars, worldVars, pubs,
                  queueVars, executed, cmdVars, owVars, stopInLoop,
                  shutdown >>
  /\ UNCHANGED stepping

\* iter != this->controlMsgs.end()
PcmTest ==
  /\ pc = "pcm_test"
  /\ pc' = IF iter <= Len(controlMsgs) THEN "pcm_exec" ELSE "pcm_clear"
  /\ UNCHANGED << stop, stopReq, startFailed, finiVars, brokerVars, worldVars, pubs,
                  queueVars, drainVars, cmdVars, owVars, stopInLoop,
                  shutdown >>
  /\ UNCHANGED stepping

\* mutant of ExecSave: a missing filename ends the drain (a break)
ExecSaveBreaks(m) ==
  LET world == get_world(m.save_world_name) IN
  IF has_save_filename(m)
    THEN IF world = 0
           THEN /\ pc' = "crashed"
                /\ UNCHANGED << stop, saved, errors >>
           ELSE /\ saved' = Append(saved, << world, m.save_filename >>)
                /\ pc' = "pcm_next"
                /\ UNCHANGED << stop, errors >>
    ELSE /\ errors' = errors + 1
         /\ pc' = "pcm_clear"
         /\ UNCHANGED << stop, saved >>

\* the save branch: get_world, then Save or the "No filename" diagnostic.
\* world->Save on the null WorldPtr of an unknown world ends the process.
ExecSave(m) ==
  LET world == get_world(m.save_world_name) IN
  IF has_save_filename(m)
    THEN IF world = 0
           THEN /\ pc' = "crashed"
                /\ UNCHANGED << stop, saved, errors >>
           ELSE /\ saved' = Append(saved, << world, m.save_filename >>)
                /\ pc' = "pcm_next"
                /\ UNCHANGED << stop, errors >>
    ELSE /\ errors' = errors + 1
         /\ pc' = "pcm_next"
         /\ UNCHANGED << stop, saved >>

\* the body of the for loop on *iter
PcmExec ==
  /\ pc = "pcm_exec"
  /\ LET e == controlMsgs[iter]
         d == Dispatch(e.m) IN
       /\ executed' = Append(executed, e.id)
       /\ drainExec' = Append(drainExec, e.id)
       /\ CASE d = "save" ->
                 /\ ExecSave(e.m)
                 /\ UNCHANGED owVars
            [] d \in {"new", "open"} ->
                 /\ owFile' = OpenTarget(e.m)
                 /\ owNew' = 0
                 /\ owResult' = "none"
                 /\ owOld' = WorldIds
                 /\ owPubs' = Len(pubs)
                 /\ pc' = "ow_read"
                 /\ UNCHANGED << stop, saved, errors >>
            [] OTHER ->
                 /\ pc' = "pcm_next"
                 /\ UNCHANGED << stop, saved, errors, owVars >>
  /\ UNCHANGED << stopReq, startFailed, finiVars, brokerVars, worldVars, pubs, queueVars,
                  iter, batch, arrived, stopInLoop, shutdown >>
  /\ UNCHANGED stepping

\* ++iter; the record of the OpenWorld call that has returned is dropped
PcmNext ==
  /\ pc = "pcm_next"
  /\ iter' = iter + 1
  /\ pc' = "pcm_test"
  /\ owFile' = None
  /\ owNew' = 0
  /\ owResult' = "none"
  /\ owOld' = {}
  /\ owPubs' = 0
  /\ UNCHANGED << stop, stopReq, startFailed, finiVars, brokerVars, worldVars, pubs,
                  queueVars, executed, batch, drainExec, arrived, cmdVars,
                  stopInLoop, shutdown >>
  /\ UNCHANGED stepping

\* this->controlMsgs.clear()
PcmClear ==
  /\ pc = "pcm_clear"
  /\ controlMsgs' = << >>
  /\ pc' = "sensors_tick"
  /\ UNCHANGED << stop, stopReq, startFailed, finiVars, brokerVars, worldVars, pubs,
                  lock, ppc, sent, drainVars, cmdVars, owVars,
                  stopInLoop, shutdown >>
  /\ UNCHANGED stepping

(* ------------------ World Lifecycle Manager: OpenWorld ---------------- *)
Notification(rm, cr) ==
  [world_name |-> "default", remove |-> rm, create |-> cr]

\* mutant of OwRead: the remove notification is published before the read
OwReadPublishesFirst ==
  /\ pc = "ow_read"
  /\ pubs' = Append(pubs, Notification(TRUE, FALSE))
  /\ IF FileKind(owFile) \in {"unreadable", "malformed"}
       THEN /\ owResult' = "false"
            /\ pc' = "pcm_next"
       ELSE /\ pc' = "ow_stop_worlds"
            /\ UNCHANGED owResult
  /\ UNCHANGED << worldVars >>
  /\ UNCHANGED << stop, stopReq, startFailed, finiVars, brokerVars, queueVars, drainVars,
                  cmdVars, owFile, owNew, owOld, owPubs, stopInLoop,
                  shutdown >>
  /\ UNCHANGED stepping

\* sdf::init and sdf::readFile: return false on a source that cannot be read
OwRead ==
  /\ pc = "ow_read"
  /\ IF FileKind(owFile) \in {"unreadable", "malformed"}
       THEN /\ owResult' = "false"
            /\ pc' = "pcm_next"
       ELSE /\ pc' = "ow_pub_remove"
            /\ UNCHANGED owResult
  /\ UNCHANGED << pubs, worldVars >>
  /\ UNCHANGED << stop, stopReq, startFailed, finiVars, brokerVars, queueVars, drainVars,
                  cmdVars, owFile, owNew, owOld, owPubs, stopInLoop,
                  shutdown >>
  /\ UNCHANGED stepping

\* worldMsg.set_remove(true); this->worldModPub->Publish(worldMsg)
OwPubRemove ==
  /\ pc = "ow_pub_remove"
  /\ pubs' = Append(pubs, Notification(TRUE, FALSE))
  /\ buffers' = TRUE
  /\ pc' = "ow_stop_worlds"
  /\ UNCHANGED << stop, stopReq, startFailed, finiVars, brokerVars, worlds, nextWorld, sensors,
                  sensorMgr, queueVars,
                  drainVars, cmdVars, owVars, stopInLoop, shutdown >>
  /\ UNCHANGED stepping

\* physics::stop_worlds()
OwStopWorlds ==
  /\ pc = "ow_stop_worlds"
  /\ worlds' = MapWorlds(LAMBDA w : [w EXCEPT !.running = FALSE])
  /\ pc' = "ow_remove_worlds"
  /\ UNCHANGED << stop, stopReq, startFailed, finiVars, brokerVars, nextWorld, sensors,
                  buffers, sensorMgr, pubs, queueVars, drainVars, cmdVars,
                  owVars, stopInLoop, shutdown >>
  /\ stepping' = FALSE

\* physics::remove_worlds()
OwRemoveWorlds ==
  /\ pc = "ow_remove_worlds"
  /\ worlds' = << >>
  /\ pc' = "ow_remove_sensors"
  /\ UNCHANGED << stop, stopReq, startFailed, finiVars, brokerVars, nextWorld, sensors,
                  buffers, sensorMgr, pubs, queueVars, drainVars, cmdVars,
                  owVars, stopInLoop, shutdown >>
  /\ stepping' = FALSE

\* mutant of OwRemoveSensors: the world is created before clear_buffers
OwRemoveSensorsThenCreate ==
  /\ pc = "ow_remove_sensors"
  /\ sensors' = {}
  /\ pc' = "ow_create_world"
  /\ UNCHANGED << stop, stopReq, startFailed, finiVars, brokerVars, worlds, nextWorld,
                  buffers, sensorMgr, pubs, queueVars, drainVars, cmdVars,
                  owVars, stopInLoop, shutdown >>
  /\ UNCHANGED stepping

\* sensors::remove_sensors()
OwRemoveSensors ==
  /\ pc = "ow_remove_sensors"
  /\ sensors' = {}
  /\ pc' = "ow_clear_buffers"
  /\ UNCHANGED << stop, stopReq, startFailed, finiVars, brokerVars, worlds, nextWorld,
                  buffers, sensorMgr, pubs, queueVars, drainVars, cmdVars,
                  owVars, stopInLoop, shutdown >>
  /\ UNCHANGED stepping

\* gazebo::transport::clear_buffers()
OwClearBuffers ==
  /\ pc = "ow_clear_buffers"
  /\ buffers' = FALSE
  /\ pc' = "ow_create_world"
  /\ UNCHANGED << stop, stopReq, startFailed, finiVars, brokerVars, worlds, nextWorld,
                  sensors, sensorMgr, pubs, queueVars, drainVars, cmdVars,
                  owVars, stopInLoop, shutdown >>
  /\ UNCHANGED stepping

\* worldElem = sdf->root->GetElement("world"); world = physics::create_world()
OwCreateWorld ==
  /\ pc = "ow_create_world"
  /\ worlds' = Append(worlds, NewWorldRec(nextWorld))
  /\ owNew' = nextWorld
  /\ nextWorld' = nextWorld + 1
  /\ pc' = "ow_load_world"
  /\ UNCHANGED << stop, stopReq, startFailed, finiVars, brokerVars, sensors, buffers,
                  sensorMgr, pubs, queueVars, drainVars, cmdVars, owFile,
                  owResult, owOld, owPubs, stopInLoop, shutdown >>
  /\ UNCHANGED stepping

\* mutant of OwLoadWorld: a failed load_world makes OpenWorld return false
OwLoadWorldReturnsFalse ==
  /\ pc = "ow_load_world"
  /\ IF FileKind(owFile) = "good"
       THEN /\ worlds' = MapWorlds(LAMBDA w :
                           IF w.id = owNew THEN [w EXCEPT !.loaded = TRUE]
                                           ELSE w)
            /\ sensors' = sensors \cup {owNew}
            /\ pc' = "ow_init_world"
            /\ UNCHANGED owResult
       ELSE /\ owResult' = "false"
            /\ pc' = "pcm_next"
            /\ UNCHANGED << worlds, sensors >>
  /\ UNCHANGED << stop, stopReq, startFailed, finiVars, brokerVars, nextWorld, buffers,
                  sensorMgr, pubs, queueVars, drainVars, cmdVars, owFile,
                  owNew, owOld, owPubs, stopInLoop, shutdown >>
  /\ UNCHANGED stepping

\* physics::load_world(world, worldElem): throws on a description the physics
\* subsystem rejects, dereferences a null worldElem when there is no <world>;
\* nothing in OpenWorld, ProcessControlMsgs or Run catches either
OwLoadWorld ==
  /\ pc = "ow_load_world"
  /\ IF FileKind(owFile) = "good"
       THEN /\ worlds' = MapWorlds(LAMBDA w :
                           IF w.id = owNew THEN [w EXCEPT !.loaded = TRUE]
                                           ELSE w)
            /\ sensors' = sensors \cup {owNew}
            /\ pc' = "ow_init_world"
            /\ UNCHANGED owResult
       ELSE /\ owResult' = "threw"
            /\ pc' = "crashed"
            /\ UNCHANGED << worlds, sensors >>
  /\ UNCHANGED << stop, stopReq, startFailed, finiVars, brokerVars, nextWorld, buffers,
                  sensorMgr, pubs, queueVars, drainVars, cmdVars, owFile,
                  owNew, owOld, owPubs, stopInLoop, shutdown >>
  /\ UNCHANGED stepping

\* physics::init_world(world)
OwInitWorld ==
  /\ pc = "ow_init_world"
  /\ worlds' = MapWorlds(LAMBDA w :
                 IF w.id = owNew THEN [w EXCEPT !.inited = TRUE] ELSE w)
  /\ pc' = "ow_run_world"
  /\ UNCHANGED << stop, stopReq, startFailed, finiVars, brokerVars, nextWorld, sensors,
                  buffers, sensorMgr, pubs, queueVars, drainVars, cmdVars,
                  owVars, stopInLoop, shutdown >>
  /\ UNCHANGED stepping

\* physics::run_world(world)
OwRunWorld ==
  /\ pc = "ow_run_world"
  /\ worlds' = MapWorlds(LAMBDA w :
                 IF w.id = owNew THEN [w EXCEPT !.running = TRUE] ELSE w)
  /\ pc' = "ow_pub_create"
  /\ UNCHANGED << stop, stopReq, startFailed, finiVars, brokerVars, nextWorld, sensors,
                  buffers, sensorMgr, pubs, queueVars, drainVars, cmdVars,
                  owVars, stopInLoop, shutdown >>
  /\ UNCHANGED stepping

\* mutant of OwPubCreate: set_remove(false) is forgotten
OwPubCreateKeepsRemove ==
  /\ pc = "ow_pub_create"
  /\ pubs' = Append(pubs, Notification(TRUE, TRUE))
  /\ buffers' = TRUE
  /\ owResult' = "true"
  /\ pc' = "pcm_next"
  /\ UNCHANGED << stop, stopReq, startFailed, finiVars, brokerVars, worlds, nextWorld, sensors,
                  sensorMgr, queueVars,
                  drainVars, cmdVars, owFile, owNew, owOld, owPubs,
                  stopInLoop, shutdown >>
  /\ UNCHANGED stepping

\* worldMsg.set_remove(false); set_create(true); Publish; return true
OwPubCreate ==
  /\ pc = "ow_pub_create"
  /\ pubs' = Append(pubs, Notification(FALSE, TRUE))
  /\ buffers' = TRUE
  /\ owResult' = "true"
  /\ pc' = "pcm_next"
  /\ UNCHANGED << stop, stopReq, startFailed, finiVars, brokerVars, worlds, nextWorld, sensors,
                  sensorMgr, queueVars,
                  drainVars, cmdVars, owFile, owNew, owOld, owPubs,
                  stopInLoop, shutdown >>
  /\ UNCHANGED stepping

(* ---------------------------- physics thread -------------------------- *)
AnyWorldRunning == \E i \in 1..Len(worlds) : worlds[i].running

\* the thread of a running world begins or ends a step
PhysicsStep ==
  /\ AnyWorldRunning
  /\ pc # "crashed"
  /\ stepping' = ~stepping
  /\ UNCHANGED << pc, stop, stopReq, startFailed, finiVars, brokerVars, worldVars, pubs, queueVars,
                  drainVars, cmdVars, owVars, stopInLoop, shutdown >>

(* ------------------------------- Next --------------------------------- *)
Next ==
  \/ \E f \in Files : LoadFile(f)
  \/ \E s \in Strings : LoadString(s)
  \/ LoadImplNode
  \/ \E a \in ArgLines : ParseArgs(a)
  \/ ServerInit
  \/ SigInt
  \/ Stop
  \/ \E p \in Producers : OnControlLock(p)
  \/ \E p \in Producers : \E m \in SentMsgs : OnControlPush(p, m)
  \/ RunEnter
  \/ RunSensorsOnce
  \/ RunWorlds
  \/ LoopTest
  \/ PcmBegin
  \/ PcmTest
  \/ PcmExec
  \/ PcmNext
  \/ PcmClear
  \/ OwRead
  \/ OwPubRemove
  \/ OwStopWorlds
  \/ OwRemoveWorlds
  \/ OwRemoveSensors
  \/ OwClearBuffers
  \/ OwCreateWorld
  \/ OwLoadWorld
  \/ OwInitWorld
  \/ OwRunWorld
  \/ OwPubCreate
  \/ SensorsTick
  \/ Sleep
  \/ RunStopWorlds
  \/ RunStopSensors
  \/ RunStopGazebo
  \/ RunStopMaster
  \/ PhysicsStep

Spec == Init /\ [][Next]_vars

(* ----------------------- command specification ------------------------ *)
\* one callback thread delivers any message of CmdMsgs to a server that was
\* loaded from a file and runs its loop; no stop request is made
CmdNext ==
  \/ \E f \in Files : LoadFile(f)
  \/ LoadImplNode
  \/ ServerInit
  \/ OnControlLock("t1")
  \/ \E m \in CmdMsgs : OnControlPush("t1", m)
  \/ RunEnter
  \/ RunSensorsOnce
  \/ RunWorlds
  \/ LoopTest
  \/ PcmBegin
  \/ PcmTest
  \/ PcmExec
  \/ PcmNext
  \/ PcmClear
  \/ OwRead
  \/ OwPubRemove
  \/ OwStopWorlds
  \/ OwRemoveWorlds
  \/ OwRemoveSensors
  \/ OwClearBuffers
  \/ OwCreateWorld
  \/ OwLoadWorld
  \/ OwInitWorld
  \/ OwRunWorld
  \/ OwPubCreate
  \/ SensorsTick
  \/ Sleep

CmdSpec == Init /\ [][CmdNext]_vars

(* ------------------------ Fini and ~Server ---------------------------- *)
\* master->Fini() on a Master in state st
Finalize(st) == IF st = "finalized" THEN "finalized_twice" ELSE "finalized"

\* delete of a Master in state st
Delete(st) == IF st = "deleted" THEN "deleted_twice" ELSE "deleted"

\* Server::Fini begins on its caller's thread: this->Stop()
FiniStop ==
  /\ fpc = "idle"
  /\ finis < MaxFinis
  /\ pc \notin {"crashed", "destroyed"}
  /\ finis' = finis + 1
  /\ fpc' = "f_gazebo"
  /\ stop' = TRUE
  /\ stopReq' = TRUE
  /\ stopInLoop' = IF stopReq THEN stopInLoop ELSE pc \in LoopPcs
  /\ UNCHANGED << pc, startFailed, brokerVars, worldVars, pubs, queueVars,
                  drainVars, cmdVars, owVars, shutdown >>
  /\ UNCHANGED stepping

\* gazebo::fini()
FiniGazebo ==
  /\ fpc = "f_gazebo"
  /\ pc # "crashed"
  /\ transport' = IF transport = "off" THEN "off" ELSE "stopped"
  /\ fpc' = "f_physics"
  /\ UNCHANGED << pc, stop, stopReq, startFailed, finis, masters, master,
                  subscribed, advertised, worldVars, pubs, queueVars,
                  drainVars, cmdVars, owVars, stopInLoop, shutdown >>
  /\ UNCHANGED stepping

\* physics::fini(): the worlds are finalized and removed
FiniPhysics ==
  /\ fpc = "f_physics"
  /\ pc # "crashed"
  /\ worlds' = << >>
  /\ stepping' = FALSE
  /\ fpc' = "f_sensors"
  /\ UNCHANGED << pc, stop, stopReq, startFailed, finis, brokerVars,
                  nextWorld, sensors, buffers, sensorMgr, pubs, queueVars,
                  drainVars, cmdVars, owVars, stopInLoop, shutdown >>

\* sensors::fini()
FiniSensors ==
  /\ fpc = "f_sensors"
  /\ pc # "crashed"
  /\ sensors' = {}
  /\ sensorMgr' = IF sensorMgr = "off" THEN "off" ELSE "stopped"
  /\ fpc' = "f_master"
  /\ UNCHANGED << pc, stop, stopReq, startFailed, finis, brokerVars, worlds,
                  nextWorld, buffers, pubs, queueVars, drainVars, cmdVars,
                  owVars, stopInLoop, shutdown >>
  /\ UNCHANGED stepping

\* if (this->master) this->master->Fini()
FiniMaster ==
  /\ fpc = "f_master"
  /\ pc # "crashed"
  /\ masters' = IF master > 0
                  THEN [masters EXCEPT ![master] = Finalize(@)]
                  ELSE masters
  /\ fpc' = "f_delete"
  /\ UNCHANGED << pc, stop, stopReq, startFailed, finis, master, subscribed,
                  advertised, transport, worldVars, pubs, queueVars,
                  drainVars, cmdVars, owVars, stopInLoop, shutdown >>
  /\ UNCHANGED stepping

\* delete this->master
FiniDelete ==
  /\ fpc = "f_delete"
  /\ pc # "crashed"
  /\ masters' = IF master > 0
                  THEN [masters EXCEPT ![master] = Delete(@)]
                  ELSE masters
  /\ fpc' = "f_null"
  /\ UNCHANGED << pc, stop, stopReq, startFailed, finis, master, subscribed,
                  advertised, transport, worldVars, pubs, queueVars,
                  drainVars, cmdVars, owVars, stopInLoop, shutdown >>
  /\ UNCHANGED stepping

\* this->master = NULL; Fini returns
FiniNull ==
  /\ fpc = "f_null"
  /\ pc # "crashed"
  /\ master' = 0
  /\ fpc' = "idle"
  /\ UNCHANGED << pc, stop, stopReq, startFailed, finis, masters, subscribed,
                  advertised, transport, worldVars, pubs, queueVars,
                  drainVars, cmdVars, owVars, stopInLoop, shutdown >>
  /\ UNCHANGED stepping

\* Server::~Server, while no call on the Server is in progress:
\* delete this->master
Destroy ==
  /\ pc \in {"created", "parse_failed", "loaded", "initialized", "returned"}
  /\ fpc = "idle"
  /\ pc' = "destroyed"
  /\ masters' = IF master > 0
                  THEN [masters EXCEPT ![master] = Delete(@)]
                  ELSE masters
  /\ UNCHANGED << stop, stopReq, startFailed, finiVars, master, subscribed,
                  advertised, transport, worldVars, pubs, queueVars,
                  drainVars, cmdVars, owVars, stopInLoop, shutdown >>
  /\ UNCHANGED stepping

\* the owner of the Server loads, initializes, runs, finalizes (from the
\* thread of Run or from another one) and destroys it; no command arrives
FiniNext ==
  \/ \E f \in Files : LoadFile(f)
  \/ LoadImplNode
  \/ ServerInit
  \/ SigInt
  \/ RunEnter
  \/ RunSensorsOnce
  \/ RunWorlds
  \/ LoopTest
  \/ PcmBegin
  \/ PcmTest
  \/ PcmClear
  \/ SensorsTick
  \/ Sleep
  \/ RunStopWorlds
  \/ RunStopSensors
  \/ RunStopGazebo
  \/ RunStopMaster
  \/ PhysicsStep
  \/ FiniStop
  \/ FiniGazebo
  \/ FiniPhysics
  \/ FiniSensors
  \/ FiniMaster
  \/ FiniDelete
  \/ FiniNull
  \/ Destroy

FiniSpec == Init /\ [][FiniNext]_vars

(* ============================== claims ================================ *)
Range(q) == { q[i] : i \in 1..Len(q) }
Ids(q)   == [ i \in 1..Len(q) |-> q[i].id ]
Count(q, x) == Cardinality({ i \in 1..Len(q) : q[i] = x })

\* the main thread has an iteration over controlMsgs in progress
Iterating == pc \in DrainPcs \cup OwPcs

\* a callback thread is inside OnControl, about to append
Appending == \E p \in Producers : ppc[p] = "locked"

\* ProcessControlMsgs is over: it returned, or an exception or a fault left it
CrashedInDrain == pc = "crashed" /\ iter > 0
DrainOver == pc = "sensors_tick" \/ CrashedInDrain

IsSaveNoFile(m) == Dispatch(m) = "save" /\ ~has_save_filename(m)

(* C1: every command that OnControl appended is executed exactly once: it is
   never executed twice, and it never leaves the queue without having been
   executed, also when it arrives while a drain is in progress. *)
C1_ExactlyOnce ==
  \A id \in 1..sent :
    /\ Count(executed, id) <= 1
    /\ id \in Range(Ids(controlMsgs)) \/ id \in Range(executed)

(* C2: when ProcessControlMsgs is called on N queued commands and none
   arrives meanwhile, then once the call is over all N have been executed in
   the order their appends completed and the queue is empty. *)
C2_DrainsAllInFifoOrder ==
  (DrainOver /\ ~arrived) =>
    /\ drainExec = Ids(batch)
    /\ controlMsgs = << >>

(* C3: the main thread touches the queue only while it holds the queue's
   lock, so it never iterates or clears the queue while an OnControl append
   is in progress on another thread. *)
C3_QueueAccessUnderLock ==
  Iterating => (lock = "main" /\ ~Appending)

(* C4: an OpenWorld whose source cannot be read or parsed returns false,
   publishes no notification and leaves the worlds, their physics threads,
   the sensors and the transport buffers as they were. *)
C4_UnreadableSourceChangesNothing ==
  [][ (pc = "ow_read" /\ pc' # pc
         /\ FileKind(owFile) \in {"unreadable", "malformed"})
      => /\ owResult' = "false"
         /\ pc' = "pcm_next"
         /\ pubs' = pubs
         /\ worlds' = worlds
         /\ sensors' = sensors
         /\ buffers' = buffers
         /\ stepping' = stepping
         /\ sensorMgr' = sensorMgr ]_vars

C4_Witness ==
  /\ pc = "pcm_next"
  /\ owResult = "false"
  /\ AnyWorldRunning
  /\ Len(pubs) = owPubs

(* C5: an OpenWorld on a valid source publishes exactly two notifications,
   {default, remove} and then {default, create}, and when it returns the only
   world named "default" is the instance it created, not an old one. *)
C5_ValidReloadPublishesTwoAndReplaces ==
  /\ pc \in OwPcs => Len(pubs) <= owPubs + 2
  /\ (pc = "pcm_next" /\ owFile # None /\ FileKind(owFile) = "good") =>
       /\ owResult = "true"
       /\ Len(pubs) = owPubs + 2
       /\ pubs[owPubs + 1] = Notification(TRUE, FALSE)
       /\ pubs[owPubs + 2] = Notification(FALSE, TRUE)
       /\ owNew \notin owOld
       /\ get_world("default") = owNew
       /\ \A i \in WorldsNamed("default") :
            /\ worlds[i].id = owNew
            /\ worlds[i].loaded /\ worlds[i].inited /\ worlds[i].running

C5_Witness ==
  /\ pc = "pcm_next"
  /\ owResult = "true"
  /\ owOld # {}
  /\ Len(pubs) = owPubs + 2

(* C6: a reload that fails after its source parsed (no world definition, or
   the physics subsystem rejects the world) is aborted: no notification has
   been published, the previous world is still present and running, and the
   loop goes on. *)
C6_FailedReloadLeavesWorldRunning ==
  owResult = "threw" =>
    /\ Len(pubs) = owPubs
    /\ \A id \in owOld :
         \E i \in 1..Len(worlds) : worlds[i].id = id /\ worlds[i].running
    /\ pc # "crashed"

(* C7: at most one world named "default" exists in every reachable state,
   after any sequence of loads and reloads. *)
C7_AtMostOneDefaultWorld ==
  Cardinality(WorldsNamed("default")) <= 1

(* C8: a stop request made while Run is in its loop makes the loop exit and
   Run return. Stated on finite runs: after such a request the main thread is
   never in a state from which Run cannot return. *)
C8_StopMakesRunReturn ==
  stopInLoop => pc # "crashed"

(* C9: after the loop Run stops the world threads, the sensors, the
   plugin-loading subsystem and the Broker, in that order and each once; the
   Broker is stopped last. *)
ShutdownOrder == << "stop_worlds", "sensors_stop", "gazebo_stop", "master_stop" >>

C9_ShutdownInOrder ==
  /\ Len(shutdown) <= Len(ShutdownOrder)
  /\ shutdown = SubSeq(ShutdownOrder, 1, Len(shutdown))
  /\ pc = "returned" => shutdown \in {<< >>, ShutdownOrder}
  /\ (master > 0 /\ masters[master] = "stopped") =>
       /\ transport = "stopped"
       /\ sensorMgr = "stopped"
       /\ ~AnyWorldRunning
  /\ transport = "stopped" => (sensorMgr = "stopped" /\ ~AnyWorldRunning)
  /\ sensorMgr = "stopped" => ~AnyWorldRunning

C9_Witness ==
  /\ pc = "returned"
  /\ shutdown = ShutdownOrder
  /\ masters[master] = "stopped"

(* C10: a SaveWorld command without save_filename saves nothing, logs an
   error, leaves the stop flag alone and goes on to the next command: the
   command queued after it in the batch is executed too. *)
C10_NoFilenameStep ==
  [][ (pc = "pcm_exec" /\ pc' # pc /\ IsSaveNoFile(controlMsgs[iter].m))
      => /\ saved' = saved
         /\ errors' = errors + 1
         /\ stop' = stop
         /\ controlMsgs' = controlMsgs
         /\ iter' = iter
         /\ pc' = "pcm_next" ]_vars

\* the drain has gone past position i + 1 of the batch it was called on
PastSuccessorOf(i) ==
  \/ iter > i + 1
  \/ iter = i + 1 /\ pc \notin {"pcm_test", "pcm_exec"}
  \/ pc = "pcm_clear"

C10_NextCommandRuns ==
  \A i \in 1..Len(batch) :
    ( /\ Iterating \/ CrashedInDrain
      /\ i < Len(batch)
      /\ IsSaveNoFile(batch[i].m)
      /\ batch[i].id \in Range(drainExec)
      /\ PastSuccessorOf(i) )
    => batch[i + 1].id \in Range(drainExec)

C10_MissingFilenameIsSkipped ==
  []C10_NextCommandRuns /\ C10_NoFilenameStep

C10_Witness ==
  /\ errors > 0
  /\ \E i \in 1..Len(batch) :
       /\ i < Len(batch)
       /\ IsSaveNoFile(batch[i].m)
       /\ batch[i].id \in Range(drainExec)
       /\ batch[i + 1].id \in Range(drainExec)
  /\ ~stop

\* command i of the batch failed: a SaveWorld that found no world, or an
\* OpenWorld whose source does not yield a running world
CommandFailed(i) ==
  \/ /\ Dispatch(batch[i].m) = "save"
     /\ CrashedInDrain
     /\ iter = i
  \/ /\ Dispatch(batch[i].m) \in {"new", "open"}
     /\ FileKind(OpenTarget(batch[i].m)) # "good"

(* C11: within one drained batch a command that fails (a SaveWorld naming a
   world that does not exist, an OpenWorld whose source is unreadable or
   unparseable, an OpenWorld whose world construction fails) does not keep
   the commands after it in the batch from being executed. *)
C11_FailureDoesNotStopBatch ==
  \A i \in 1..Len(batch) :
    ( /\ DrainOver
      /\ i < Len(batch)
      /\ batch[i].id \in Range(drainExec)
      /\ CommandFailed(i) )
    => batch[i + 1].id \in Range(drainExec)

\* Server::GetInitialized; transport::is_stopped() is false from the start
\* of the transport to its stop
GetInitialized == ~stop /\ transport = "running"

(* C12: when startup fails (invalid arguments, a help request, a world
   source that cannot be read or parsed, a world whose construction fails),
   ParseArgs does not run Init, stop is never cleared, and a Run that
   follows returns without a loop iteration, without starting a world
   thread and without draining a command. *)
C12_FailedStartupNeverRuns ==
  startFailed =>
    /\ stop
    /\ ~GetInitialized
    /\ pc \in {"parse_failed", "returned", "crashed"}
    /\ sensorMgr # "inited"
    /\ \A i \in 1..Len(worlds) : ~worlds[i].inited /\ ~worlds[i].running
    /\ iter = 0
    /\ executed = << >>
    /\ shutdown = << >>

\* ParseArgs returned false and the Run that followed has returned
C12_Witness == startFailed /\ pc = "returned"

\* a startup load (LoadFile, LoadString or the load of ParseArgs) fails in
\* this step: it returns false or the load failure leaves it
LoadFails ==
  /\ pc \in {"created", "loaded"}
  /\ pc' \in {"parse_failed", "crashed"}

(* C13: a startup load that fails, by returning false or by raising the load
   failure, leaves nothing started by that call: no Broker thread, no
   transport thread, no control subscription and no world. *)
C13_FailedLoadLeavesNothing ==
  [][ LoadFails
      => /\ masters' = masters
         /\ transport' = transport
         /\ subscribed' = subscribed
         /\ worlds' = worlds ]_vars

\* a load of a description with a loadable world has succeeded and Init has
\* returned; Run has not been entered
LoadedAndInitialized == pc = "initialized" /\ nextWorld > 1

(* C14: for every valid world description, a successful load followed by
   Init leaves the server Running (stop false, GetInitialized true while the
   transport is up) with a world named "default" that is resolvable by name,
   loaded and initialized. *)
C14_LoadThenInitIsRunning ==
  /\ (pc = "initialized" /\ ~stopReq) => (~stop /\ GetInitialized)
  /\ LoadedAndInitialized =>
       /\ get_world("default") # 0
       /\ \A i \in 1..Len(worlds) : worlds[i].loaded /\ worlds[i].inited
       /\ sensorMgr = "inited"

C14_Witness == LoadedAndInitialized /\ ~stopReq /\ GetInitialized

\* the Broker this->master points to is initialized and its thread runs
BrokerRunning == master > 0 /\ masters[master] = "running"

\* this step is a call of the server on the transport: the Subscribe and
\* Advertise of LoadImpl, or a Publish of OpenWorld
TransportCall ==
  \/ pc \in {"li_node", "pa_node"} /\ pc' # pc
  \/ pubs' # pubs

(* C15: the Broker is initialized and its dispatch thread is running before
   the server subscribes, advertises or publishes, and the server makes no
   such call after the Broker has been stopped. *)
C15_BrokerRunsAroundTransportCalls ==
  [][ TransportCall => BrokerRunning ]_vars

\* Run has returned after a reload published and the Broker was stopped last
C15_Witness ==
  /\ pc = "returned"
  /\ pubs # << >>
  /\ subscribed
  /\ masters[master] = "stopped"

\* a reload is in progress or has just returned to ProcessControlMsgs
InReload == pc \in OwPcs \/ (pc = "pcm_next" /\ owFile # None)

\* world id is registered and its physics thread runs
RunsWorld(id) ==
  \E i \in 1..Len(worlds) : worlds[i].id = id /\ worlds[i].running

(* C16: within one successful reload the remove notification is published
   before any physics thread is stopped; the old world, its sensors and the
   transport buffers are all removed before the new world is created; and the
   create notification is published only after the new world has been
   loaded, initialized and started. *)
C16_ReloadOrder ==
  InReload =>
    /\ Len(pubs) = owPubs => \A id \in owOld : RunsWorld(id)
    /\ (owNew # 0 /\ Len(pubs) < owPubs + 2) =>
         /\ WorldIds = {owNew}
         /\ sensors \subseteq {owNew}
         /\ ~buffers
         /\ pubs[owPubs + 1] = Notification(TRUE, FALSE)
    /\ Len(pubs) = owPubs + 2 =>
         /\ pubs[owPubs + 2] = Notification(FALSE, TRUE)
         /\ \E i \in 1..Len(worlds) :
              /\ worlds[i].id = owNew
              /\ worlds[i].loaded /\ worlds[i].inited /\ worlds[i].running

\* a reload that replaced a running world has published its create
C16_Witness ==
  /\ InReload
  /\ owOld # {}
  /\ Len(pubs) = owPubs + 2
  /\ RunsWorld(owNew)
  /\ ~(\E id \in owOld : RunsWorld(id))

\* the notifications published so far are whole pairs, remove then create,
\* followed by at most one remove
PubsPaired ==
  \A i \in 1..Len(pubs) :
    pubs[i] = IF i % 2 = 1 THEN Notification(TRUE, FALSE)
              ELSE Notification(FALSE, TRUE)

(* C17: no reload runs concurrently with another: OpenWorld is entered only
   from ProcessControlMsgs on the loop thread, so a reload starts only when
   every earlier reload has published both its notifications, and the pairs
   of different reloads are never interleaved (remove, create, remove,
   create). *)
C17_ReloadsNeverInterleave ==
  /\ PubsPaired
  /\ pc \in OwPcs =>
       /\ owPubs % 2 = 0
       /\ iter \in 1..Len(controlMsgs)
       /\ Dispatch(controlMsgs[iter].m) \in {"new", "open"}
       /\ owFile = OpenTarget(controlMsgs[iter].m)
  /\ Len(pubs) % 2 = 1 =>
       \/ pc \in OwPcs /\ Len(pubs) = owPubs + 1
       \/ pc = "crashed" /\ owResult = "threw"

\* two reloads have each published their pair
C17_Witness == Len(pubs) = 4 /\ PubsPaired

(* C18 as stated: the stop flag is checked once per loop iteration, and
   after a stop request the only remaining work before shutdown begins is the
   command currently executing plus at most one sensor update and one sleep:
   no further queued command starts executing once stop is set. *)
C18_NoCommandStartsAfterStop ==
  [][ (stop /\ pc = "pcm_test") => pc' # "pcm_exec" ]_vars

(* C18, amended: the stop flag is read only by the loop test, once per
   iteration. After a stop request no new iteration begins, and the only
   remaining work before shutdown begins is the rest of the iteration in
   progress: its drain still starts every command left in the queue, then
   comes one sensor update and one sleep. *)
C18_StopEndsAfterCurrentIteration ==
  [][ /\ (stop /\ pc # "pcm_begin") => pc' # "pcm_begin"
      /\ (stop /\ pc = "loop_test" /\ pc' # pc) => pc' = "stop_worlds"
      /\ (stop /\ pc = "pcm_test" /\ pc' # pc /\ iter <= Len(controlMsgs))
           => pc' = "pcm_exec"
      /\ (stop /\ pc = "pcm_exec" /\ pc' # pc)
           => executed' = Append(executed, controlMsgs[iter].id)
      /\ (stop /\ pc = "pcm_clear" /\ pc' # pc) => pc' = "sensors_tick"
      /\ (stop /\ pc = "sensors_tick" /\ pc' # pc) => pc' = "sleep"
      /\ (stop /\ pc = "sleep" /\ pc' # pc) => pc' = "loop_test" ]_vars

\* a stop request was made inside the loop, one command of the drain has
\* been executed and the next one is about to start
C18_Witness ==
  /\ stop
  /\ stopInLoop
  /\ pc = "pcm_exec"
  /\ Len(drainExec) >= 1

\* the number of Brokers whose dispatch thread runs
RunningMasters == Cardinality({ i \in 1..Len(masters) : masters[i] = "running" })

(* C19: the loader starts the Broker only if it is not already running:
   after any sequence of LoadFile and LoadString calls at most one Broker
   and one dispatch thread exist, and none runs without the Server owning
   it. *)
C19_AtMostOneBroker ==
  /\ Len(masters) <= 1
  /\ RunningMasters <= 1
  /\ \A i \in 1..Len(masters) : masters[i] = "running" => i = master

\* positions of the main thread before Run has started the worlds
BeforeWorldsRun ==
  {"created", "parse_failed", "li_node", "pa_node", "loaded", "pa_loaded",
   "initialized", "run_once", "run_worlds"}

(* C20: Run enters its loop only after it advanced the sensors once and then
   started the world threads, in that order; the first drain of the queue
   comes after both; and every iteration does the drain, then one sensor
   update, then the sleep, in that order. *)
C20_RunOrder ==
  /\ [](pc \in BeforeWorldsRun =>
          (~AnyWorldRunning /\ executed = << >> /\ iter = 0))
  /\ [][ pc' # pc =>
          /\ pc' = "run_once" => (pc = "initialized" /\ ~stop)
          /\ pc' = "run_worlds" => pc = "run_once"
          /\ pc' = "loop_test" => pc \in {"run_worlds", "sleep"}
          /\ pc' = "pcm_begin" => pc = "loop_test"
          /\ pc' = "pcm_test" => pc \in {"pcm_begin", "pcm_next"}
          /\ pc' = "sensors_tick" => pc = "pcm_clear"
          /\ pc' = "sleep" => pc = "sensors_tick"
          /\ pc = "loop_test" => pc' \in {"pcm_begin", "stop_worlds"}
          /\ pc = "pcm_clear" => pc' = "sensors_tick"
          /\ pc = "sensors_tick" => pc' = "sleep"
          /\ pc = "sleep" => pc' = "loop_test" ]_vars

\* an iteration that executed a command has reached its sleep
C20_Witness ==
  /\ pc = "sleep"
  /\ executed # << >>
  /\ AnyWorldRunning
  /\ ~stop

DefaultWorld == "worlds/empty.world"

IsNewWorld(m) == Dispatch(m) = "new"
IsOpenDefault(m) == Dispatch(m) = "open" /\ m.open_filename = DefaultWorld

\* this step is the call OpenWorld(f): nothing but the record of the call
\* changes, whatever the message was
EntersOpenWorld(f) ==
  /\ pc' = "ow_read"
  /\ owFile' = f
  /\ owNew' = 0
  /\ owResult' = "none"
  /\ owOld' = WorldIds
  /\ owPubs' = Len(pubs)
  /\ UNCHANGED << stop, brokerVars, worldVars, pubs, queueVars, cmdVars >>

\* the command under the iterator is a NewWorld or an OpenWorld of the
\* default source
AtDefaultReload ==
  /\ iter \in 1..Len(controlMsgs)
  /\ \/ IsNewWorld(controlMsgs[iter].m)
     \/ IsOpenDefault(controlMsgs[iter].m)

(* C21: a NewWorld command (new_world present and true) has exactly the
   effect of an OpenWorld command whose filename is the default empty-world
   source: from the same state both make the same call
   OpenWorld("worlds/empty.world"), and both end with the same two
   notifications, the old worlds torn down and one new world running. *)
C21_NewWorldIsOpenDefault ==
  /\ [][ (pc = "pcm_exec" /\ pc' # pc /\ AtDefaultReload)
         => EntersOpenWorld(DefaultWorld) ]_vars
  /\ []( (pc \in OwPcs /\ AtDefaultReload) => owFile = DefaultWorld )
  /\ []( (pc = "pcm_next" /\ AtDefaultReload) =>
           /\ owResult = "true"
           /\ Len(pubs) = owPubs + 2
           /\ pubs[owPubs + 1] = Notification(TRUE, FALSE)
           /\ pubs[owPubs + 2] = Notification(FALSE, TRUE)
           /\ WorldIds = {owNew}
           /\ owNew \notin owOld
           /\ RunsWorld(owNew)
           /\ sensors = {owNew} )

\* one drain has executed a NewWorld and an OpenWorld of the default source
C21_Witness ==
  /\ pc = "pcm_next"
  /\ owResult = "true"
  /\ \E i, j \in 1..Len(batch) :
       /\ IsNewWorld(batch[i].m)
       /\ IsOpenDefault(batch[j].m)
       /\ batch[i].id \in Range(drainExec)
       /\ batch[j].id \in Range(drainExec)

(* C22: a stop request is never lost: once Stop() or SIGINT has set the stop
   flag, at any point after the Server is constructed (also before or during
   ParseArgs and Init), no later operation clears it, so a Run that follows
   does not enter its loop. *)
C22_StopRequestIsNeverLost ==
  /\ stopReq => stop
  /\ (stopReq /\ ~stopInLoop) => pc \notin {"pcm_begin"} \cup DrainPcs \cup OwPcs

\* the message under the iterator
Current == controlMsgs[iter].m

\* this step calls OpenWorld(f) and saves nothing
OnlyReloads(f) ==
  /\ pc' = "ow_read"
  /\ owFile' = f
  /\ UNCHANGED << saved, errors >>

\* this step attempts the save (written, diagnosed, or failed on a missing
\* world) and starts no reload
OnlySaves ==
  /\ pc' \in {"pcm_next", "crashed"}
  /\ UNCHANGED owVars
  /\ \/ pc' = "crashed" /\ UNCHANGED << saved, errors >>
     \/ pc' = "pcm_next" /\ Len(saved') = Len(saved) + 1 /\ errors' = errors
     \/ pc' = "pcm_next" /\ saved' = saved /\ errors' = errors + 1

\* this step does nothing but pass to the next message
DoesNothing ==
  /\ pc' = "pcm_next"
  /\ UNCHANGED << saved, errors, owVars >>

(* C23: each drained control message triggers at most one action, chosen by
   fixed priority: a save if save_world_name is present, otherwise a NewWorld
   reload if new_world is present and true, otherwise an OpenWorld reload if
   open_filename is present; a message with none of these (or only
   new_world = false) causes no action, and a message with both
   save_world_name and open_filename never triggers a reload. *)
C23_OneActionByPriority ==
  [][ (pc = "pcm_exec" /\ pc' # pc) =>
        /\ UNCHANGED << stop, brokerVars, worldVars, pubs, queueVars >>
        /\ IF Current.save_world_name # None
             THEN OnlySaves
           ELSE IF Current.new_world = "true"
             THEN OnlyReloads(DefaultWorld)
           ELSE IF Current.open_filename # None
             THEN OnlyReloads(Current.open_filename)
           ELSE DoesNothing ]_vars

\* a message with save_world_name and open_filename was executed: the world
\* was saved and no reload was started
C23_Witness ==
  /\ pc = "pcm_next"
  /\ iter \in 1..Len(controlMsgs)
  /\ Current.save_world_name # None
  /\ Current.open_filename # None
  /\ saved # << >>
  /\ owFile = None
  /\ pubs = << >>

(* C24: the Broker is never used after it has been released: in every
   interleaving of Run with Fini on another thread, the final
   master->Stop() of Run is never issued on a deleted or null Broker, and
   the Broker is finalized and deleted at most once across the Fini calls
   and the destructor. *)
C24_NoUseAfterRelease ==
  /\ [][ (pc = "master_stop" /\ pc' # pc)
         => (master > 0 /\ masters[master] # "deleted") ]_vars
  /\ [](\A i \in 1..Len(masters) :
          masters[i] \notin {"finalized_twice", "deleted_twice"})

====
